---- MODULE Spec2Model ----
(***************************************************************************)
(* Session state machine of SolixBLEDevice (src/SolixBLE.py).              *)
(*                                                                         *)
(* The device object is driven by cooperatively scheduled coroutines: the  *)
(* caller's connect(), the background _reconnect() tasks created by        *)
(* _disconnect_callback(), and the transport's callbacks.  A coroutine     *)
(* runs atomically between two suspension points (the awaits on            *)
(* establish_connection, start_notify and asyncio.sleep), so every action  *)
(* below is one such atomic stretch of code.  Spec is the whole program;   *)
(* ConnectionSpec explores the connection life cycle, ReconnectSpec a      *)
(* chain of automatic reconnects and TelemetrySpec the notification        *)
(* handler and the telemetry decoder on a subscribed link.                 *)
(***************************************************************************)
EXTENDS Integers, Sequences, FiniteSets, TLC

\* src/SolixBLE.py:29
RECONNECT_ATTEMPTS_MAX == 5

\* Bounds of the model.
MaxAttempts == 6      \* cap of the (unbounded) _connection_attempts counter
MaxLinks == 2         \* BleakClient objects the transport hands out (ConnectionSpec)
MaxChainLinks == 7    \* the same in a chain of reconnects (ReconnectSpec)
MaxTasks == 2         \* _reconnect() tasks in flight at the same time
MaxCallbacks == 2     \* length of _state_changed_callbacks
MaxNotifications == 2 \* telemetry notifications the transport delivers

Links == 1..(IF MaxChainLinks > MaxLinks THEN MaxChainLinks ELSE MaxLinks)
Tasks == 1..MaxTasks
Procs == 0..MaxTasks          \* 0 is the caller's connect(), t > 0 a _reconnect() task

\* The callables the caller registers: f raises when it is called, g returns.
Functions == {"f", "g"}

VARIABLES
    client,                   \* self._client: 0 is None, l > 0 a BleakClient
    links,                    \* per BleakClient: state of its transport link
    supports_telemetry,       \* self._supports_telemetry
    expect_disconnect,        \* self._expect_disconnect
    connection_attempts,      \* self._connection_attempts
    timed_out,                \* self.timed_out
    state_changed_callbacks,  \* self._state_changed_callbacks
    proc,                     \* position of each coroutine
    last,                     \* what the last step did and returned
    stable,                   \* connect() returned True, no disconnect()/drop since
    auto_disabled,            \* the handler refused to reconnect, no connect() call since
    unexpected,               \* unexpected disconnects answered by a reconnect task in a row:
                              \* no connect() returned True, no call of the caller in between
    telemetry,                \* self._data, self._last_data_timestamp and the decoded fields
    now                       \* datetime.now(): notifications received so far

\* The variables of the telemetry decoder.
tvars == <<telemetry, now>>

vars == <<client, links, supports_telemetry, expect_disconnect,
          connection_attempts, timed_out, state_changed_callbacks,
          proc, last, stable, auto_disabled, unexpected, telemetry, now>>

(***************************************************************************)
(* Link states: "free" (no such BleakClient yet), "open" (is_connected),   *)
(* "notifying" (is_connected and start_notify(UUID_TELEMETRY) is active),  *)
(* "dropping" (the link is down, disconnected_callback not yet run),       *)
(* "closed" (down, callback delivered).                                    *)
(***************************************************************************)
LinkStates == {"free", "open", "notifying", "dropping", "closed"}
Live == {"open", "notifying"}

Idle == [pc |-> "idle", link |-> 0]

\* function() of line 309 raises.
Raises(fn) == fn = "f"

\* BleakClient.is_connected of the client cl under the link states lk.
IsConnected(cl, lk) == cl # 0 /\ lk[cl] \in Live

\* SolixBLEDevice.connected
connected == IsConnected(client, links)

\* SolixBLEDevice.supports_telemetry
supports == supports_telemetry

\* SolixBLEDevice.available
available == connected /\ supports

\* The next BleakClient establish_connection() creates.
NextLink == 1 + Cardinality({l \in Links : links[l] # "free"})

\* Index of the first callback of cbs that raises, 0 if none does.
FirstRaise(cbs) ==
    IF \E i \in 1..Len(cbs) : Raises(cbs[i])
    THEN CHOOSE i \in 1..Len(cbs) :
            /\ Raises(cbs[i])
            /\ \A j \in 1..(i - 1) : ~Raises(cbs[j])
    ELSE 0

\* _run_state_changed_callbacks: the callbacks called, in order; the loop
\* ends at the first callback that raises and the exception propagates.
RunCallbacks(cbs) ==
    [ran    |-> IF FirstRaise(cbs) = 0 THEN cbs ELSE SubSeq(cbs, 1, FirstRaise(cbs)),
     raised |-> FirstRaise(cbs) # 0]

\* What a step returns to its caller: op is the function that returned ("none"
\* for a step that suspends a coroutine or returns nothing), res its result
\* or exception, ran the callbacks it has called.
Step(op, res, ran) == [op |-> op, res |-> res, ran |-> ran]

NoStep == Step("none", "none", <<>>)

\* The step takes a connect() through its success path (lines 258-266).
Succeeds == last'.op \in {"connect", "reconnect"} /\ last'.res \in {"true", "raised"}

\* The unexpected disconnects in a row after a step of the connect() of
\* coroutine p: a success and a call of the caller end the row.
Unexpected(p) == IF p = 0 \/ Succeeds THEN 0 ELSE unexpected

(***************************************************************************)
(* The telemetry decoder.  A payload is a sequence of bytes; Python's      *)
(* 0-based data[i] is element i + 1 of the sequence.                       *)
(***************************************************************************)

\* src/SolixBLE.py:36
EXPECTED_TELEMETRY_SIZE == 253

\* data[i]
At(data, i) == data[i + 1]

\* data[i:j]
Slice(data, i, j) == SubSeq(data, i + 1, IF j < Len(data) THEN j ELSE Len(data))

(***************************************************************************)
(* int.from_bytes(bs, byteorder="little") / d.  A 32-bit word does not fit *)
(* the integers of the model checker, so the value is computed as the      *)
(* pair of its quotient and remainder by d, byte by byte from the most     *)
(* significant byte (the last one): the value is q + r/d.                  *)
(***************************************************************************)
RECURSIVE from_bytes_big(_, _)
from_bytes_big(bs, d) ==
    IF bs = <<>>
    THEN [q |-> 0, r |-> 0]
    ELSE LET h == from_bytes_big(SubSeq(bs, 1, Len(bs) - 1), d)
             c == h.r * 256 + bs[Len(bs)]
         IN  [q |-> h.q * 256 + (c \div d), r |-> c % d]

RECURSIVE from_bytes(_, _)
from_bytes(bs, d) ==
    IF bs = <<>>
    THEN [q |-> 0, r |-> 0]
    ELSE LET h == from_bytes(Tail(bs), d)
             c == h.r * 256 + Head(bs)
         IN  [q |-> h.q * 256 + (c \div d), r |-> c % d]

\* The number q + r/d, the result of a division by the scale d.
Scaled(v, d) == [q |-> v.q, r |-> v.r, d |-> d]

\* self._parse_int(index) / d
parse_int(data, index, d) == Scaled(from_bytes(Slice(data, index, index + 2), d), d)

\* self._parse_int32(index) / d
parse_int32(data, index, d) == Scaled(from_bytes(Slice(data, index, index + 4), d), d)

\* bytes.decode('ascii') raises UnicodeDecodeError unless every byte is below 0x80.
IsAscii(bs) == \A k \in 1..Len(bs) : bs[k] < 128

\* bytes.decode('ascii'): the code points of the string.
decode_ascii(bs) == [k \in 1..Len(bs) |-> bs[k]]

\* None, for an attribute that holds an integer and for one that holds a quotient.
None == -1
NoneScaled == [q |-> 0, r |-> 0, d |-> 0]

\* The telemetry attributes after __init__ (all None; an absent frame and an
\* absent string are the empty sequence, an absent timestamp is 0).
NoTelemetry ==
    [data                      |-> <<>>,
     last_data_timestamp       |-> 0,
     serial_no                 |-> <<>>,
     charge_percentage_battery |-> None,
     unknown1                  |-> None,
     temperature_battery       |-> None,
     power_solar_in            |-> NoneScaled,
     power_ac_out              |-> NoneScaled,
     unknown3                  |-> NoneScaled,
     energy_solar_total_in     |-> NoneScaled,
     energy_battery_total_in   |-> NoneScaled,
     energy_total_out          |-> NoneScaled,
     power_battery_discharge   |-> NoneScaled]

WrongType_first(data) == At(data, 8) # 5

\* _parse_telemetry, line 593: not the message type of a telemetry frame.
WrongType(data) == At(data, 8) # 5 \/ At(data, 9) # 19

(***************************************************************************)
(* _parse_telemetry(data) called at the time `time` with the attributes t: *)
(* the attributes afterwards, and whether the decoding of the serial       *)
(* number raised.  _data and _last_data_timestamp are assigned (lines      *)
(* 600-601) before the serial number is decoded (line 604).                *)
(***************************************************************************)
parse_telemetry(t, data, time) ==
    IF Len(data) # EXPECTED_TELEMETRY_SIZE
    THEN [tel |-> t, raised |-> FALSE]
    ELSE IF WrongType(data)
    THEN [tel |-> t, raised |-> FALSE]
    ELSE IF ~IsAscii(Slice(data, 16, 32))
    THEN [tel |-> [t EXCEPT !.data = data, !.last_data_timestamp = time],
          raised |-> TRUE]
    ELSE [tel |->
            [data                      |-> data,
             last_data_timestamp       |-> time,
             serial_no                 |-> decode_ascii(Slice(data, 16, 32)),
             charge_percentage_battery |-> At(data, 35),
             unknown1                  |-> At(data, 39),
             temperature_battery       |-> At(data, 73),
             power_solar_in            |-> parse_int(data, 77, 10),
             power_ac_out              |-> parse_int(data, 84, 10),
             unknown3                  |-> parse_int32(data, 103, 100000),
             energy_solar_total_in     |-> parse_int32(data, 110, 10000),
             energy_battery_total_in   |-> parse_int32(data, 117, 100000),
             energy_total_out          |-> parse_int32(data, 124, 10000),
             power_battery_discharge   |-> parse_int32(data, 132, 100)],
          raised |-> FALSE]

(***************************************************************************)
(* The payloads the transport delivers.  Frame builds a payload of len     *)
(* bytes with the marker m at bytes 8-9, the letters "ABC..." as serial    *)
(* number with s as its last byte, the pair p at bytes 77-78 and           *)
(* (fill.a * k + fill.c) % 256 at every other byte k.                      *)
(***************************************************************************)
Frame(len, m, s, p, fill) ==
    [i \in 1..len |->
        LET k == i - 1 IN
        IF k = 8 THEN m[1]
        ELSE IF k = 9 THEN m[2]
        ELSE IF k = 31 THEN s
        ELSE IF k \in 16..30 THEN 65 + (k - 16)
        ELSE IF k = 77 THEN p[1]
        ELSE IF k = 78 THEN p[2]
        ELSE (fill.a * k + fill.c) % 256]

Marker == <<5, 19>>
Fills == {[a |-> 0, c |-> 0], [a |-> 1, c |-> 0], [a |-> 0, c |-> 255]}
Pairs == {<<100, 0>>, <<0, 1>>, <<255, 255>>}

Frames ==
    {Frame(n, Marker, 80, <<100, 0>>, [a |-> 1, c |-> 0]) : n \in {0, 252, 254}}
    \cup {Frame(EXPECTED_TELEMETRY_SIZE, m, 80, <<100, 0>>, [a |-> 1, c |-> 0]) :
             m \in {<<5, 0>>, <<0, 19>>, <<19, 5>>}}
    \cup {Frame(EXPECTED_TELEMETRY_SIZE, Marker, x[1], x[2], x[3]) :
             x \in {80, 128} \X Pairs \X Fills}

Init ==
    /\ client = 0
    /\ links = [l \in Links |-> "free"]
    /\ supports_telemetry = FALSE
    /\ expect_disconnect = TRUE
    /\ connection_attempts = 0
    /\ timed_out = FALSE
    /\ state_changed_callbacks = <<>>
    /\ proc = [p \in Procs |-> Idle]
    /\ last = NoStep
    /\ stable = FALSE
    /\ auto_disabled = FALSE
    /\ unexpected = 0
    /\ telemetry = NoTelemetry
    /\ now = 0

OpName(p) == IF p = 0 THEN "connect" ELSE "reconnect"

\* add_callback(function)
add_callback(f) ==
    /\ Len(state_changed_callbacks) < MaxCallbacks
    /\ state_changed_callbacks' = Append(state_changed_callbacks, f)
    /\ last' = NoStep
    /\ UNCHANGED <<client, links, supports_telemetry, expect_disconnect,
                   connection_attempts, timed_out, proc, stable,
                   auto_disabled, unexpected>>
    /\ UNCHANGED tvars

RemoveFirst_all(cbs, f) == SelectSeq(cbs, LAMBDA x : x # f)

\* list.remove(f): the list without the first occurrence of f.
RemoveFirst(cbs, f) ==
    LET i == CHOOSE k \in 1..Len(cbs) :
                 cbs[k] = f /\ \A j \in 1..(k - 1) : cbs[j] # f
    IN  SubSeq(cbs, 1, i - 1) \o SubSeq(cbs, i + 1, Len(cbs))

\* remove_callback(function): ValueError when function is not registered.
remove_callback(f) ==
    /\ IF \E k \in 1..Len(state_changed_callbacks) : state_changed_callbacks[k] = f
       THEN /\ state_changed_callbacks' = RemoveFirst(state_changed_callbacks, f)
            /\ last' = NoStep
       ELSE /\ state_changed_callbacks' = state_changed_callbacks
            /\ last' = Step("remove_callback", "not_found", <<>>)
    /\ UNCHANGED <<client, links, supports_telemetry, expect_disconnect,
                   connection_attempts, timed_out, proc, stable,
                   auto_disabled, unexpected>>
    /\ UNCHANGED tvars

ConnectSucceed_keepAttempts(p, run) ==
    LET r == RunCallbacks(state_changed_callbacks) IN
    /\ expect_disconnect' = FALSE
    /\ connection_attempts' = connection_attempts
    /\ proc' = [proc EXCEPT ![p] = Idle]
    /\ IF run /\ r.raised
       THEN /\ last' = Step(OpName(p), "raised", r.ran)
            /\ stable' = stable
       ELSE /\ last' = Step(OpName(p), "true", IF run THEN r.ran ELSE <<>>)
            /\ stable' = TRUE

(***************************************************************************)
(* connect(), lines 258-266: the success path.                             *)
(***************************************************************************)
ConnectSucceed(p, run) ==
    LET r == RunCallbacks(state_changed_callbacks) IN
    /\ expect_disconnect' = FALSE
    /\ connection_attempts' = 0
    /\ proc' = [proc EXCEPT ![p] = Idle]
    /\ IF run /\ r.raised
       THEN /\ last' = Step(OpName(p), "raised", r.ran)
            /\ stable' = stable
       ELSE /\ last' = Step(OpName(p), "true", IF run THEN r.ran ELSE <<>>)
            /\ stable' = TRUE

\* connect() returns False.
ConnectFail(p) ==
    /\ proc' = [proc EXCEPT ![p] = Idle]
    /\ last' = Step(OpName(p), "false", <<>>)
    /\ UNCHANGED <<expect_disconnect, connection_attempts, stable>>

(***************************************************************************)
(* connect(), lines 234-266, run with self._client = cl and the link       *)
(* states lk: the code from the second "if not self.connected" up to the   *)
(* await of start_notify or the return.  has is the answer of              *)
(* services.get_characteristic(UUID_TELEMETRY).                            *)
(***************************************************************************)
ConnectTail(p, run, cl, lk, has) ==
    /\ client' = cl
    /\ links' = lk
    /\ IF ~IsConnected(cl, lk)
       THEN /\ ConnectFail(p)
            /\ UNCHANGED supports_telemetry
       ELSE IF ~supports_telemetry
            THEN /\ supports_telemetry' = has
                 /\ IF has
                    THEN /\ proc' = [proc EXCEPT ![p] =
                                        [pc |-> "subscribe", link |-> cl]]
                         /\ last' = NoStep
                         /\ UNCHANGED <<expect_disconnect, connection_attempts, stable>>
                    ELSE ConnectFail(p)
            ELSE /\ ConnectSucceed(p, run)
                 /\ UNCHANGED supports_telemetry

(***************************************************************************)
(* connect(), lines 214-229: entry of the coroutine p up to its first      *)
(* suspension.                                                             *)
(***************************************************************************)
ConnectEnter(p, run, has) ==
    IF ~connected
    THEN /\ connection_attempts < MaxAttempts
         /\ connection_attempts' = connection_attempts + 1
         /\ proc' = [proc EXCEPT ![p] = [pc |-> "establish", link |-> 0]]
         /\ last' = NoStep
         /\ UNCHANGED <<client, links, supports_telemetry, expect_disconnect, stable>>
    ELSE ConnectTail(p, run, client, links, has)

\* The run_callbacks argument of the connect() call of coroutine p: any value
\* for the caller, False for _reconnect (line 297).  connect() reads it on
\* line 263 only, so a suspended call draws it when it gets there.
RunArg(p) == IF p = 0 THEN BOOLEAN ELSE {FALSE}

\* The caller awaits connect(run_callbacks = run).
connect(run) ==
    /\ proc[0].pc = "idle"
    /\ \E has \in BOOLEAN : ConnectEnter(0, run, has)
    /\ auto_disabled' = FALSE
    /\ unexpected' = 0
    /\ UNCHANGED <<timed_out, state_changed_callbacks>>
    /\ UNCHANGED tvars

\* establish_connection() returns a new, connected BleakClient.
EstablishOk(p) ==
    /\ proc[p].pc = "establish"
    /\ NextLink \in Links
    /\ \E run \in RunArg(p), has \in BOOLEAN :
          ConnectTail(p, run, NextLink, [links EXCEPT ![NextLink] = "open"], has)
    /\ auto_disabled' = (auto_disabled /\ p # 0)
    /\ unexpected' = Unexpected(p)
    /\ UNCHANGED <<timed_out, state_changed_callbacks>>
    /\ UNCHANGED tvars

\* establish_connection() raises BleakError: self._client is not assigned.
EstablishFail(p) ==
    /\ proc[p].pc = "establish"
    /\ \E run \in RunArg(p), has \in BOOLEAN :
          ConnectTail(p, run, client, links, has)
    /\ auto_disabled' = (auto_disabled /\ p # 0)
    /\ unexpected' = Unexpected(p)
    /\ UNCHANGED <<timed_out, state_changed_callbacks>>
    /\ UNCHANGED tvars

\* start_notify() returns: lines 254-266.
SubscribeOk(p) ==
    /\ proc[p].pc = "subscribe"
    /\ links[proc[p].link] \in Live
    /\ links' = [links EXCEPT ![proc[p].link] = "notifying"]
    /\ client' = client
    /\ IF IsConnected(client, links') /\ supports_telemetry
       THEN \E run \in RunArg(p) : ConnectSucceed(p, run)
       ELSE ConnectFail(p)
    /\ auto_disabled' = (auto_disabled /\ p # 0)
    /\ unexpected' = Unexpected(p)
    /\ UNCHANGED <<supports_telemetry, timed_out, state_changed_callbacks>>
    /\ UNCHANGED tvars

\* start_notify() raises BleakError: lines 250-252.
SubscribeFail(p) ==
    /\ proc[p].pc = "subscribe"
    /\ client' = client
    /\ ConnectFail(p)
    /\ auto_disabled' = (auto_disabled /\ p # 0)
    /\ unexpected' = Unexpected(p)
    /\ UNCHANGED <<links, supports_telemetry, timed_out, state_changed_callbacks>>
    /\ UNCHANGED tvars

disconnect_keepFlag ==
    /\ expect_disconnect' = expect_disconnect
    /\ client' = 0
    /\ stable' = FALSE
    /\ last' = NoStep
    /\ UNCHANGED <<links, supports_telemetry, connection_attempts, timed_out,
                   state_changed_callbacks, proc, auto_disabled>>
    /\ unexpected' = 0
    /\ UNCHANGED tvars

\* disconnect(): self._client.disconnect() is called but never awaited, so
\* the coroutine it returns does not run and the link stays as it is.
disconnect ==
    /\ expect_disconnect' = TRUE
    /\ client' = 0
    /\ stable' = FALSE
    /\ last' = NoStep
    /\ UNCHANGED <<links, supports_telemetry, connection_attempts, timed_out,
                   state_changed_callbacks, proc, auto_disabled>>
    /\ unexpected' = 0
    /\ UNCHANGED tvars

\* The transport loses the link of client l.
LinkDrop(l) ==
    /\ links[l] \in Live
    /\ links' = [links EXCEPT ![l] = "dropping"]
    /\ stable' = FALSE
    /\ last' = NoStep
    /\ UNCHANGED <<client, supports_telemetry, expect_disconnect,
                   connection_attempts, timed_out, state_changed_callbacks,
                   proc, auto_disabled, unexpected>>
    /\ UNCHANGED tvars

\* asyncio.create_task(self._reconnect()): a task slot that is not in use.
FreeTask == CHOOSE t \in Tasks : proc[t].pc = "idle" /\ \A u \in 1..(t - 1) : proc[u].pc # "idle"

IsStale_never(l) == FALSE

\* _disconnect_callback, line 323: the signal comes from an old client.
IsStale(l) == l # client

\* _disconnect_callback, lines 337-340: there are attempts remaining.
MayReconnect ==
    RECONNECT_ATTEMPTS_MAX = -1 \/ connection_attempts < RECONNECT_ATTEMPTS_MAX

\* _disconnect_callback(client = l)
disconnect_callback(l) ==
    /\ links[l] = "dropping"
    /\ links' = [links EXCEPT ![l] = "closed"]
    /\ IF IsStale(l)
       THEN /\ last' = Step("disconnect_callback", "ignored", <<>>)
            /\ UNCHANGED <<supports_telemetry, proc, auto_disabled, unexpected>>
       ELSE /\ supports_telemetry' = FALSE
            /\ IF expect_disconnect
               THEN /\ last' = Step("disconnect_callback", "expected", <<>>)
                    /\ unexpected' = 0
                    /\ UNCHANGED <<proc, auto_disabled>>
               ELSE IF MayReconnect
                    THEN /\ \E t \in Tasks : proc[t].pc = "idle"
                         /\ proc' = [proc EXCEPT ![FreeTask] =
                                        [pc |-> "sleep", link |-> 0]]
                         /\ last' = Step("disconnect_callback", "scheduled", <<>>)
                         /\ unexpected' = IF unexpected < RECONNECT_ATTEMPTS_MAX
                                          THEN unexpected + 1 ELSE unexpected
                         /\ UNCHANGED auto_disabled
                    ELSE /\ auto_disabled' = TRUE
                         /\ UNCHANGED unexpected
                         /\ last' = Step("disconnect_callback", "refused", <<>>)
                         /\ UNCHANGED proc
    /\ UNCHANGED <<client, expect_disconnect, connection_attempts, timed_out,
                   state_changed_callbacks, stable>>
    /\ UNCHANGED tvars

\* _reconnect(): asyncio.sleep(RECONNECT_DELAY) is over, connect(run_callbacks=False).
reconnect(t) ==
    /\ proc[t].pc = "sleep"
    /\ \E has \in BOOLEAN : ConnectEnter(t, FALSE, has)
    /\ UNCHANGED <<timed_out, state_changed_callbacks, auto_disabled>>
    /\ unexpected' = Unexpected(t)
    /\ UNCHANGED tvars

\* _reconnect(): asyncio.timeout(DISCONNECT_TIMEOUT) expires while the task is
\* suspended, in connect() or, when the event loop was kept busy for that
\* long, still in asyncio.sleep; TimeoutError is handled in lines 301-304.
reconnect_timeout(t) ==
    /\ proc[t].pc \in {"sleep", "establish", "subscribe"}
    /\ timed_out' = TRUE
    /\ proc' = [proc EXCEPT ![t] = Idle]
    /\ last' = Step("reconnect", "timeout", RunCallbacks(state_changed_callbacks).ran)
    /\ UNCHANGED <<client, links, supports_telemetry, expect_disconnect,
                   connection_attempts, state_changed_callbacks,
                   stable, auto_disabled, unexpected>>
    /\ UNCHANGED tvars

(***************************************************************************)
(* _telemetry_update(handle, data), the notification handler of the link   *)
(* l: _parse_telemetry(data), then _run_state_changed_callbacks().  An     *)
(* exception of the decoder leaves the handler before the callbacks run.   *)
(***************************************************************************)
telemetry_update(l, data) ==
    LET p == parse_telemetry(telemetry, data, now + 1)
        r == RunCallbacks(state_changed_callbacks)
    IN  /\ links[l] = "notifying"
        /\ now < MaxNotifications
        /\ now' = now + 1
        /\ telemetry' = p.tel
        /\ last' = IF p.raised
                   THEN Step("telemetry_update", "decode_error", <<>>)
                   ELSE Step("telemetry_update",
                             IF r.raised THEN "raised" ELSE "none", r.ran)
        /\ UNCHANGED <<client, links, supports_telemetry, expect_disconnect,
                       connection_attempts, timed_out, state_changed_callbacks,
                       proc, stable, auto_disabled, unexpected>>

\* Every step of the connection handling: the caller's calls, the coroutines
\* of connect() and _reconnect(), and the transport's disconnect signals.
ConnectionNext ==
    \/ \E f \in Functions : add_callback(f)
    \/ \E f \in Functions : remove_callback(f)
    \/ \E run \in BOOLEAN : connect(run)
    \/ \E p \in Procs : NextLink <= MaxLinks /\ EstablishOk(p)
    \/ \E p \in Procs : EstablishFail(p)
    \/ \E p \in Procs : SubscribeOk(p)
    \/ \E p \in Procs : SubscribeFail(p)
    \/ disconnect
    \/ \E l \in Links : LinkDrop(l)
    \/ \E l \in Links : disconnect_callback(l)
    \/ \E t \in Tasks : reconnect(t)
    \/ \E t \in Tasks : reconnect_timeout(t)

\* Every step of the program: the connection handling and the notifications
\* of every link that is subscribed.
Next ==
    \/ ConnectionNext
    \/ \E l \in Links, data \in Frames : telemetry_update(l, data)

Spec == Init /\ [][Next]_vars

(***************************************************************************)
(* The connection handling on its own.  _telemetry_update changes only the *)
(* telemetry attributes (and what the last step was); connect(),           *)
(* disconnect(), _reconnect() and _disconnect_callback() neither read nor  *)
(* write them.  The claims about connections are therefore explored        *)
(* without the notifications, and the claims about notifications and the   *)
(* decoder under TelemetrySpec below.                                      *)
(***************************************************************************)
ConnectionSpec == Init /\ [][ConnectionNext]_vars

(***************************************************************************)
(* A chain of automatic reconnects, long enough to use up the attempts:    *)
(* the caller's connect() at any time, the link drops, the handler and the *)
(* reconnect tasks, with a transport that answers every                    *)
(* establish_connection with a new client.  An attempt is without success  *)
(* when the client lacks the telemetry characteristic or start_notify      *)
(* raises.  disconnect(), the callback registration, a failing             *)
(* establish_connection and the deadline of a task are explored in         *)
(* ConnectionSpec.                                                         *)
(***************************************************************************)
ReconnectNext ==
    \/ \E run \in BOOLEAN : connect(run)
    \/ \E p \in Procs : NextLink <= MaxChainLinks /\ EstablishOk(p)
    \/ \E p \in Procs : SubscribeOk(p)
    \/ \E p \in Procs : SubscribeFail(p)
    \/ \E l \in Links : LinkDrop(l)
    \/ \E l \in Links : disconnect_callback(l)
    \/ \E t \in Tasks : reconnect(t)

ReconnectSpec == Init /\ [][ReconnectNext]_vars

(***************************************************************************)
(* Notification handling on a subscribed link.  The handler reads only     *)
(* the callback list and writes only the telemetry attributes, which no    *)
(* other code reads or writes, so it is explored from the state a          *)
(* successful connect() leaves, together with the registration calls.      *)
(***************************************************************************)
TelemetryInit ==
    /\ client = 1
    /\ links = [l \in Links |-> IF l = 1 THEN "notifying" ELSE "free"]
    /\ supports_telemetry = TRUE
    /\ expect_disconnect = FALSE
    /\ connection_attempts = 0
    /\ timed_out = FALSE
    /\ state_changed_callbacks = <<>>
    /\ proc = [p \in Procs |-> Idle]
    /\ last = Step("connect", "true", <<>>)
    /\ stable = TRUE
    /\ auto_disabled = FALSE
    /\ unexpected = 0
    /\ telemetry = NoTelemetry
    /\ now = 0

TelemetryNext ==
    \/ \E f \in Functions : add_callback(f)
    \/ \E f \in Functions : remove_callback(f)
    \/ \E l \in Links, data \in Frames : telemetry_update(l, data)

TelemetrySpec == TelemetryInit /\ [][TelemetryNext]_vars


(***************************************************************************)
(* Properties of the session state machine.                                *)
(***************************************************************************)

\* The transport links that are up.
OpenLinks == {l \in Links : links[l] \in Live}

\* The step delivers the disconnect signal of client l.
SignalOf(l) == links[l] = "dropping" /\ links'[l] = "closed"

\* The step ends the reconnect task t.
EndOf(t) == proc[t].pc # "idle" /\ proc'[t] = Idle

\* The step is the caller's connect() being called.
ConnectCall == proc[0].pc = "idle" /\ (proc'[0].pc # "idle" \/ last'.op = "connect")

\* The step belongs to the caller's connect().
ConnectStep == proc'[0] # proc[0] \/ last'.op = "connect"

\* C1: if connect() has returned True and neither disconnect() nor a link
\* drop has happened since, a further connect() call makes no connection
\* attempt, does not probe or subscribe again, and returns True.
C1_ConnectIdempotent ==
    [][(stable /\ ConnectCall)
        => /\ last'.op = "connect"
           /\ last'.res = "true"
           /\ UNCHANGED <<client, links, supports_telemetry>>]_vars

\* C2: available implies connected, connected implies that the link of the
\* held client is up, and available implies that the telemetry notification
\* is active on the held client.
C2_AvailableImpliesSubscribed ==
    /\ available => connected
    /\ connected => client \in OpenLinks
    /\ available => links[client] = "notifying"

\* C3: a disconnect signal of a client that is not the held one changes no
\* session state, schedules no reconnect and calls no callback.
C3_StaleSignalIgnored ==
    [][\A l \in Links :
          (SignalOf(l) /\ l # client)
          => /\ UNCHANGED <<client, supports_telemetry, expect_disconnect,
                            connection_attempts, timed_out, proc,
                            state_changed_callbacks>>
             /\ last'.res = "ignored"
             /\ last'.ran = <<>>]_vars

\* A stale signal has arrived while a newer client is held and an unexpected
\* disconnect of that client would be answered by a reconnect.
C3_Witness ==
    /\ last.op = "disconnect_callback"
    /\ last.res = "ignored"
    /\ connected
    /\ supports_telemetry
    /\ ~expect_disconnect
    /\ connection_attempts < RECONNECT_ATTEMPTS_MAX

\* C4: after RECONNECT_ATTEMPTS_MAX unexpected disconnects in a row, each
\* answered by a reconnect attempt and none of the attempts successful, the
\* attempts are used up and the handler refuses.  From then on, while the
\* caller has no connect() running and calls none, no reconnect task is
\* created and none starts a connection attempt, the session stays
\* disconnected and the counter stays at or above the maximum.
C4_AutoReconnectStaysDisabled ==
    [][(/\ unexpected >= RECONNECT_ATTEMPTS_MAX
        /\ auto_disabled
        /\ proc[0].pc = "idle"
        /\ ~ConnectStep)
        => /\ \A t \in Tasks : proc'[t].pc \in {"sleep", "establish"}
                                  => proc'[t] = proc[t]
           /\ ~connected'
           /\ connection_attempts' >= RECONNECT_ATTEMPTS_MAX]_vars

\* C5: when the connect() of a reconnect task returns True the counter is
\* zero, the task is over and it has not set timed_out.
C5_ReconnectSuccessResetsCounter ==
    [][(last'.op = "reconnect" /\ last'.res = "true")
        => /\ connection_attempts' = 0
           /\ timed_out' = timed_out
           /\ \E t \in Tasks : EndOf(t)]_vars

\* A reconnect task has connected and subscribed a new client after an
\* unexpected disconnect.
C5_Witness ==
    /\ last.op = "reconnect"
    /\ last.res = "true"
    /\ client > 1
    /\ links[client] = "notifying"
    /\ available
    /\ connection_attempts = 0
    /\ ~timed_out

\* C6: when the deadline of a reconnect task expires the task is over
\* without another attempt, timed_out is set and every registered callback
\* has been called once.
C6_TimeoutNotifiesAllOnce ==
    [][(last'.op = "reconnect" /\ last'.res = "timeout")
        => /\ timed_out'
           /\ \E t \in Tasks : EndOf(t)
           /\ connection_attempts' = connection_attempts
           /\ last'.ran = state_changed_callbacks]_vars

\* C7: when a reconnect task times out the session is neither connected nor
\* available.
C7_TimedOutIsDisconnected ==
    (last.op = "reconnect" /\ last.res = "timeout")
    => ~connected /\ ~available

\* C8: disconnect() sets the expected-disconnect flag, lets go of the client
\* and calls no callback; a signal schedules a reconnect task only for the
\* held client, and a client that was let go is never held again: the signal
\* of the client disconnect() lets go never schedules a reconnect task.
C8_DisconnectIsExpected ==
    [][/\ (client # 0 /\ client' = 0) => (expect_disconnect' /\ last' = NoStep)
       /\ \A l \in Links : (SignalOf(l) /\ proc' # proc) => l = client
       /\ client' \notin {0, client} => links[client'] = "free"]_vars

\* disconnect() has let go of the only client made so far, and the signal of
\* that client has just been delivered and ignored.
C8_Witness ==
    /\ client = 0
    /\ expect_disconnect
    /\ links[1] = "closed"
    /\ \A l \in Links \ {1} : links[l] = "free"
    /\ last.op = "disconnect_callback"
    /\ last.res = "ignored"

\* C9: disconnect() closes the link of the client it held, and when the
\* signal of a link is delivered after it supports_telemetry is False.
C9_DisconnectClosesLink ==
    [][/\ (client # 0 /\ client' = 0) => links'[client] \notin Live
       /\ \A l \in Links : (SignalOf(l) /\ client = 0) => ~supports_telemetry']_vars

\* C10: at most one transport link is up at any time.
C10_AtMostOneLinkOpen == Cardinality(OpenLinks) <= 1

\* C11: connect() returns False, and does not raise, when the link cannot be
\* established or when start_notify() fails; and whenever it returns False with
\* the link established, the session is not available.
C11_ConnectFailureReturnsFalse ==
    [][/\ \A p \in Procs :
             (/\ proc[p].pc \in {"establish", "subscribe"}
              /\ proc'[p] = Idle
              /\ links' = links
              /\ last'.res # "timeout"
              /\ ~(connected' /\ proc[p].pc = "establish"))
                => last'.res = "false"
       /\ (last'.op \in {"connect", "reconnect"} /\ last'.res = "false" /\ connected')
             => ~available']_vars

\* The payload is discarded by the size check or by the marker check.
Rejected(data) == Len(data) # 253 \/ At(data, 8) # 5 \/ At(data, 9) # 19

\* The payload passes those checks but its serial number is not ASCII.
Malformed(data) ==
    /\ ~Rejected(data)
    /\ \E k \in 16..31 : At(data, k) >= 128

\* C12: a notification whose payload is not 253 bytes long, or whose bytes 8
\* and 9 are not 0x05 0x13, leaves every telemetry attribute, the stored frame
\* and the timestamp as they were.
C12_RejectedFrameIsNoOp ==
    [][\A l \in Links, data \in Frames :
          (telemetry_update(l, data) /\ Rejected(data)) => telemetry' = telemetry]_vars

C12_Witness ==
    /\ last.op = "telemetry_update"
    /\ now = 2
    /\ telemetry.last_data_timestamp = 1
    /\ telemetry.data # <<>>
    /\ telemetry.power_solar_in = [q |-> 10, r |-> 0, d |-> 10]

\* C13: a notification whose payload passes the size and marker checks but
\* fails to decode leaves every telemetry attribute, the stored frame and the
\* timestamp as they were.
C13_MalformedFrameIsNoOp ==
    [][\A l \in Links, data \in Frames :
          (telemetry_update(l, data) /\ Malformed(data)) => telemetry' = telemetry]_vars

\* C14: a notification whose payload is discarded (wrong size, wrong marker
\* or malformed) calls no registered callback.
C14_DiscardedFrameIsSilent ==
    [][\A l \in Links, data \in Frames :
          (telemetry_update(l, data) /\ (Rejected(data) \/ Malformed(data)))
             => last'.ran = <<>>]_vars

\* C15: the notification round of a decoded telemetry frame calls the
\* registered callbacks, each registration once, in the order of registration.
C15_RoundCallsAllInOrder ==
    [][\A l \in Links, data \in Frames :
          (telemetry_update(l, data) /\ ~Rejected(data) /\ ~Malformed(data))
             => last'.ran = state_changed_callbacks]_vars

\* C16: no notification round lets the exception of a callback out to its
\* caller, and a round that has called a callback has called all of them.
C16_CallbackFailureIsolated ==
    [][last'.op \in {"connect", "reconnect", "telemetry_update"}
          => /\ last'.res # "raised"
             /\ last'.ran # <<>> => Len(last'.ran) = Len(state_changed_callbacks)]_vars

\* The number of registrations of f in cbs.
Count(cbs, f) == Cardinality({k \in 1..Len(cbs) : cbs[k] = f})

\* C17: remove_callback of a callable that is not registered fails and leaves
\* the list as it is; remove_callback of a registered one takes exactly one
\* registration of it out of the list and keeps the others in their order.
C17_RemoveCallback ==
    [][\A f \in Functions :
          remove_callback(f) =>
             IF Count(state_changed_callbacks, f) = 0
             THEN /\ last'.res = "not_found"
                  /\ state_changed_callbacks' = state_changed_callbacks
             ELSE /\ last'.res # "not_found"
                  /\ Count(state_changed_callbacks', f) = Count(state_changed_callbacks, f) - 1
                  /\ \E k \in 1..Len(state_changed_callbacks) :
                        /\ state_changed_callbacks[k] = f
                        /\ state_changed_callbacks' =
                              SubSeq(state_changed_callbacks, 1, k - 1)
                              \o SubSeq(state_changed_callbacks, k + 1,
                                        Len(state_changed_callbacks))]_vars

C17_Witness ==
    /\ last.op = "remove_callback"
    /\ last.res = "not_found"
    /\ state_changed_callbacks = <<"g", "g">>

\* C18: when a reconnect task ends without success (connect() returned False
\* or the deadline passed) and callbacks are registered, the task has called
\* callbacks.
C18_ReconnectFailureNotifies ==
    [][(/\ last'.op = "reconnect"
        /\ last'.res \in {"false", "timeout"}
        /\ state_changed_callbacks # <<>>)
          => last'.ran # <<>>]_vars

\* C19: when the connect() of a reconnect task returns True the
\* counter is zero and the registered callbacks have been called.
C19_ReconnectSuccessNotifies ==
    [][(last'.op = "reconnect" /\ last'.res = "true")
          => /\ connection_attempts' = 0
             /\ last'.ran = state_changed_callbacks]_vars

\* (b0 + 256*b1) / d
Quot16(b0, b1, d) ==
    [q |-> (b0 + 256 * b1) \div d, r |-> (b0 + 256 * b1) % d, d |-> d]

\* (b0 + 256*b1 + 65536*b2 + 16777216*b3) / d, with 16777216*b3 written as
\* b3 * ((16777216 \div d) * d + 16777216 % d) to stay within 32 bits.
Quot32(b0, b1, b2, b3, d) ==
    LET c == b3 * (16777216 % d) + b0 + 256 * b1 + 65536 * b2
    IN  [q |-> b3 * (16777216 \div d) + (c \div d), r |-> c % d, d |-> d]

\* The 32-bit field of the stored frame at the offset k, divided by d.
Field32(k, d) ==
    Quot32(At(telemetry.data, k), At(telemetry.data, k + 1),
           At(telemetry.data, k + 2), At(telemetry.data, k + 3), d)

\* C20: the numeric attributes decoded from a valid stored frame are the
\* little-endian integers at the offsets 77, 84 (16 bit) and 103, 110, 117,
\* 124, 132 (32 bit), divided by 10, 10, 100000, 10000, 100000, 10000, 100.
C20_FieldsLittleEndianScaled ==
    (telemetry.data # <<>> /\ ~Malformed(telemetry.data))
       => /\ telemetry.power_solar_in =
                Quot16(At(telemetry.data, 77), At(telemetry.data, 78), 10)
          /\ telemetry.power_ac_out =
                Quot16(At(telemetry.data, 84), At(telemetry.data, 85), 10)
          /\ telemetry.unknown3 = Field32(103, 100000)
          /\ telemetry.energy_solar_total_in = Field32(110, 10000)
          /\ telemetry.energy_battery_total_in = Field32(117, 100000)
          /\ telemetry.energy_total_out = Field32(124, 10000)
          /\ telemetry.power_battery_discharge = Field32(132, 100)

C20_Witness ==
    /\ telemetry.data # <<>>
    /\ ~Malformed(telemetry.data)
    /\ At(telemetry.data, 77) = 100
    /\ At(telemetry.data, 78) = 0
    /\ telemetry.power_solar_in = [q |-> 10, r |-> 0, d |-> 10]
    /\ At(telemetry.data, 135) = 135
    /\ telemetry.power_battery_discharge.q > 0

\* C21: in a valid stored frame, a byte 73 with its top bit set gives a
\* negative battery temperature, and a 32-bit word at 132 with its top bit set
\* (byte 135 >= 0x80) gives a negative battery discharge power.
C21_SignedFields ==
    (telemetry.data # <<>> /\ ~Malformed(telemetry.data))
       => /\ At(telemetry.data, 73) >= 128 => telemetry.temperature_battery < 0
          /\ At(telemetry.data, 135) >= 128 => telemetry.power_battery_discharge.q < 0

\* The reconnect tasks that have been created and have not finished.
TasksInFlight == {t \in Tasks : proc[t].pc # "idle"}

\* C22: after a disconnect() called while a reconnect task was pending,
\* and until the caller calls connect() again, no step (of the pending
\* task in particular) clears the expected-disconnect flag or makes the
\* session connected.  The case is read off the state: tasks are created
\* only while the flag is clear and only disconnect() sets it, so a task
\* in flight with the flag set was pending when disconnect() was called;
\* disconnect() leaves the session not connected, so every connect() call
\* made since has raised the counter, and a counter that shows only the
\* task's own call (0 while it sleeps, 1 afterwards) shows that the caller
\* has made none.
C22_DisconnectStopsReconnect ==
    [][\A t \in Tasks :
          (/\ expect_disconnect
           /\ TasksInFlight = {t}
           /\ connection_attempts = (IF proc[t].pc = "sleep" THEN 0 ELSE 1)
           /\ proc[0].pc = "idle"
           /\ ~ConnectCall)
             => /\ expect_disconnect'
                /\ connected' => connected]_vars

\* C23: at most one reconnect task is in flight.
C23_AtMostOneReconnectTask == Cardinality(TasksInFlight) <= 1
====
